---------------------------- MODULE Spec2Model ----------------------------
(***************************************************************************)
(* A model of the Investi backend (FastAPI): the projection calculator,    *)
(* the ticker resolver, the risk classifier and its questions, the         *)
(* market-data accessor, the chat endpoint, registration/login, the        *)
(* profile endpoints, and concurrent requests with their database sessions.*)
(*                                                                         *)
(* Text is modelled as a sequence of one-character strings wherever the    *)
(* code looks inside it (upper(), lower(), strip(), substring search,      *)
(* regular expressions) and is joined into a string where it is output.    *)
(*                                                                         *)
(* Floating-point money is modelled in fixed point: one unit is 1/10000    *)
(* of a dollar, a return is in units of 1/100000, a percentage in units of *)
(* 1/100 of a percent.  round(x, 2) is Python's round-half-to-even.        *)
(***************************************************************************)
EXTENDS Integers, Sequences, FiniteSets, TLC

VARIABLES
    request,      \* the HTTP request (or call) being served, with what the
                  \* external collaborators answer while it is served
    response,     \* the HTTP response (or return value) of that request
    users,        \* the rows of the users table, in insertion order
    registered,   \* history: the registrations that succeeded
    profiles,     \* the rows of the profiles table, in insertion order
    sessions,     \* the database sessions opened so far, open or closed
    inflight      \* the requests being served concurrently, each with the
                  \* place its handler has reached

vars == <<request, response, users, registered, profiles, sessions, inflight>>

\* ------------------------------------------------------------------ text

LowerLetters == <<"a","b","c","d","e","f","g","h","i","j","k","l","m",
                  "n","o","p","q","r","s","t","u","v","w","x","y","z">>
UpperLetters == <<"A","B","C","D","E","F","G","H","I","J","K","L","M",
                  "N","O","P","Q","R","S","T","U","V","W","X","Y","Z">>

IndexIn(c, seq) ==
    IF \E i \in 1..Len(seq) : seq[i] = c
    THEN CHOOSE i \in 1..Len(seq) : seq[i] = c
    ELSE 0

\* str.upper() and str.lower(), on one character and on a text
upper_char(c) ==
    LET i == IndexIn(c, LowerLetters) IN IF i > 0 THEN UpperLetters[i] ELSE c
lower_char(c) ==
    LET i == IndexIn(c, UpperLetters) IN IF i > 0 THEN LowerLetters[i] ELSE c
upper(s) == [i \in 1..Len(s) |-> upper_char(s[i])]
lower(s) == [i \in 1..Len(s) |-> lower_char(s[i])]

IsUpperLetter(c) == IndexIn(c, UpperLetters) > 0

Whitespace == {" ", "\n", "\t"}

\* str.strip(): leading and trailing whitespace removed
RECURSIVE lstrip(_)
lstrip(s) ==
    IF s /= <<>> /\ Head(s) \in Whitespace THEN lstrip(Tail(s)) ELSE s
RECURSIVE rstrip(_)
rstrip(s) ==
    IF s /= <<>> /\ s[Len(s)] \in Whitespace
    THEN rstrip(SubSeq(s, 1, Len(s) - 1)) ELSE s
strip(s) == rstrip(lstrip(s))

\* the text as one string (an f-string interpolation of it)
RECURSIVE Join(_)
Join(s) == IF s = <<>> THEN "" ELSE Head(s) \o Join(Tail(s))

\* ------------------------------------------------------------ arithmetic

\* n / d rounded to the nearest integer, ties to the even one (d > 0)
RoundHalfEvenDiv(n, d) ==
    LET q == n \div d
        r == n % d
    IN  IF 2 * r < d THEN q
        ELSE IF 2 * r > d THEN q + 1
        ELSE IF q % 2 = 0 THEN q ELSE q + 1

Unit == 10^4              \* units per dollar
Cent == 10^2              \* units per cent: round(x, 2) keeps whole cents
ReturnScale == 10^5       \* a return of 1.0 in return units

\* round(x, 2) of an amount in units: a whole number of cents, in units
round2(x) == Cent * RoundHalfEvenDiv(x, Cent)

\* (gain / amount) * 100 rounded to 2 places, in 1/100 of a percent:
\* gain * 10000 / amount by long division, so that no product overflows
pct2(gain, amount) ==
    LET q1 == (gain * 100) \div amount
        r1 == (gain * 100) % amount
    IN  q1 * 100 + RoundHalfEvenDiv(r1 * 100, amount)

\* ------------------------------------------------ projection calculator

ASSET_NAMES ==
    [t \in {"AAPL", "TSLA", "GOOGL", "AMZN", "MSFT", "NVDA", "META",
            "BTC-USD", "ETH-USD", "SPY", "QQQ", "GLD"} |->
        CASE t = "AAPL" -> "Apple Inc."
          [] t = "TSLA" -> "Tesla Inc."
          [] t = "GOOGL" -> "Alphabet (Google)"
          [] t = "AMZN" -> "Amazon.com Inc."
          [] t = "MSFT" -> "Microsoft Corp."
          [] t = "NVDA" -> "NVIDIA Corp."
          [] t = "META" -> "Meta Platforms"
          [] t = "BTC-USD" -> "Bitcoin"
          [] t = "ETH-USD" -> "Ethereum"
          [] t = "SPY" -> "S&P 500 ETF"
          [] t = "QQQ" -> "Nasdaq 100 ETF"
          [] t = "GLD" -> "Gold ETF"]

MinDailyObservations == 20
MinMonthlyCloses == 2
MinAmount == 10
MinMonths == 1
MaxMonths == 48

Disclaimer == "Este cálculo es estimativo, basado en rendimientos históricos promedio. El rendimiento pasado no garantiza resultados futuros. No constituye asesoría financiera oficial."

\* hist["Close"].resample("ME").last(): the rows are in date order; the last
\* close of every calendar month, in month order
resample_last(hist) ==
    LET ends == {i \in 1..Len(hist) :
                    i = Len(hist) \/ hist[i + 1].month /= hist[i].month}
        nth[k \in 1..Cardinality(ends)] ==
            CHOOSE i \in ends : Cardinality({j \in ends : j <= i}) = k
    IN  [k \in 1..Cardinality(ends) |-> hist[nth[k]]]

\* monthly_prices.pct_change().dropna(): the return of each month on the one
\* before it, in return units
pct_change(monthly) ==
    [k \in 1..(Len(monthly) - 1) |->
        RoundHalfEvenDiv((monthly[k + 1].close - monthly[k].close) * ReturnScale,
                         monthly[k].close)]

RECURSIVE SumSeq(_)
SumSeq(s) == IF s = <<>> THEN 0 ELSE Head(s) + SumSeq(Tail(s))

\* float(monthly_returns.mean())
mean(returns) == RoundHalfEvenDiv(SumSeq(returns), Len(returns))

\* an entry whose value is not rounded
breakdown_entry_unrounded(m, current_value, amount) ==
    [month |-> m,
     value |-> current_value,
     gain |-> round2(current_value - amount),
     gain_pct |-> pct2(current_value - amount, amount)]

\* one entry of monthly_breakdown
breakdown_entry(m, current_value, amount) ==
    [month |-> m,
     value |-> round2(current_value),
     gain |-> round2(current_value - amount),
     gain_pct |-> pct2(current_value - amount, amount)]

\* current_value * (1 + avg_monthly_return)
compound(current_value, avg_monthly_return) ==
    current_value + RoundHalfEvenDiv(current_value * avg_monthly_return, ReturnScale)

\* for m in range(1, months + 1): ... monthly_breakdown.append({...})
RECURSIVE project_loop(_, _, _, _, _, _)
project_loop(m, months, current_value, amount, avg_monthly_return, monthly_breakdown) ==
    IF m > months THEN monthly_breakdown
    ELSE LET value == compound(current_value, avg_monthly_return)
         IN  project_loop(m + 1, months, value, amount, avg_monthly_return,
                 Append(monthly_breakdown, breakdown_entry(m, value, amount)))

\* the loop as range(1, months): the last month is missing
project_short(amount, avg_monthly_return, months) ==
    project_loop(1, months - 1, amount, amount, avg_monthly_return, <<>>)

project(amount, avg_monthly_return, months) ==
    project_loop(1, months, amount, amount, avg_monthly_return, <<>>)

\* except Exception as e: return {"error": f"No se pudo calcular ... {ticker}: {e}"}
calculation_failed(ticker, e) ==
    [error |-> "No se pudo calcular la proyección para " \o ticker \o ": " \o e]

\* calculate_projection(ticker, amount, months), the provider answering
\* `provider`: it raises, or it returns the daily rows of stock.history().
\* annualized_return_pct, a fractional power, is not modelled.
calculate_projection(raw_ticker, amount, months, provider) ==
    LET ticker == Join(strip(upper(raw_ticker))) IN
    IF provider.kind = "raises" THEN calculation_failed(ticker, provider.message)
    ELSE
    LET hist == provider.rows IN
    IF Len(hist) = 0 \/ Len(hist) < MinDailyObservations
    THEN [error |-> "No hay datos históricos suficientes para " \o ticker]
    ELSE
    LET monthly_prices == resample_last(hist) IN
    IF Len(monthly_prices) < MinMonthlyCloses
    THEN [error |-> "Datos insuficientes para calcular retorno mensual de " \o ticker]
    ELSE
    LET avg_monthly_return == mean(pct_change(monthly_prices)) IN
    IF amount = 0 THEN calculation_failed(ticker, "float division by zero")
    ELSE
    LET monthly_breakdown == project(amount, avg_monthly_return, months) IN
    IF monthly_breakdown = <<>>
    THEN calculation_failed(ticker, "list index out of range")
    ELSE
    LET final_value == monthly_breakdown[Len(monthly_breakdown)].value
        total_gain == final_value - amount
    IN  [ticker |-> ticker,
         asset_name |-> IF ticker \in DOMAIN ASSET_NAMES
                        THEN ASSET_NAMES[ticker] ELSE ticker,
         initial_amount |-> round2(amount),
         final_value |-> round2(final_value),
         total_gain |-> round2(total_gain),
         total_gain_pct |-> pct2(total_gain, amount),
         avg_monthly_return_pct |-> avg_monthly_return * 10,
         monthly_breakdown |-> monthly_breakdown,
         data_period |-> <<monthly_prices[1].month,
                           monthly_prices[Len(monthly_prices)].month>>,
         disclaimer |-> Disclaimer]

\* CalculatorRequest: amount ge=10, months ge=1 le=48
CalculatorRequestValid(amount, months) ==
    /\ amount >= MinAmount * Unit
    /\ months >= MinMonths
    /\ months <= MaxMonths

\* the endpoint returning whatever the calculator returned
calculate_endpoint_unchecked(ticker, amount, months, provider) ==
    LET result == calculate_projection(ticker, amount, months, provider)
    IN  [status |-> 200, body |-> result, result |-> result]

\* POST /api/calculate, after the request body is validated
calculate_endpoint(ticker, amount, months, provider) ==
    LET result == calculate_projection(ticker, amount, months, provider)
    IN  IF "error" \in DOMAIN result
        THEN [status |-> 422, detail |-> result.error, result |-> result]
        ELSE [status |-> 200, body |-> result, result |-> result]

\* -- the calculator's inputs

MaxHistMonths == 2
DayCounts == {5, 20}
Closes == {1000, 1010}

\* the daily rows of `n` months: month k has shape[k].days rows that climb by
\* one a day to the month's last close
HistoryRows(shape) ==
    LET Before(k) == SumSeq([j \in 1..(k - 1) |-> shape[j].days])
        Total == Before(Len(shape) + 1)
        MonthOf(i) == CHOOSE k \in 1..Len(shape) :
                          Before(k) < i /\ i <= Before(k) + shape[k].days
    IN  [i \in 1..Total |->
            LET k == MonthOf(i)
            IN  [month |-> k,
                 close |-> shape[k].last - (Before(k) + shape[k].days - i)]]

HistoryShapes ==
    UNION {[1..n -> [days : DayCounts, last : Closes]] : n \in 0..MaxHistMonths}

ProviderAnswers ==
    {[kind |-> "raises", message |-> "HTTP Error 404"]}
    \cup {[kind |-> "history", rows |-> HistoryRows(shape)] : shape \in HistoryShapes}

RawTickers == {<<" ", "a", "a", "p", "l", " ">>, <<"X", "y", "z">>}
Amounts == {5 * Unit, 10 * Unit, 100050, 254321}
MonthsAsked == (MinMonths - 1)..(MaxMonths + 1)

Idle == [endpoint |-> "none"]
NoResponse == [status |-> 0]

InitCalc ==
    /\ request = Idle
    /\ response = NoResponse
    /\ users = <<>>
    /\ registered = {}
    /\ profiles = <<>>
    /\ sessions = <<>>
    /\ inflight = <<>>

\* the response is sent and the server waits for the next request
Reply ==
    /\ request /= Idle
    /\ request' = Idle
    /\ response' = NoResponse
    /\ UNCHANGED <<users, registered, profiles, sessions, inflight>>

PostCalculate ==
    /\ request = Idle
    /\ \E ticker \in RawTickers, provider \in ProviderAnswers,
          amount \in Amounts, months \in MonthsAsked :
        /\ request' = [endpoint |-> "calculate", ticker |-> ticker,
                       amount |-> amount, months |-> months,
                       provider |-> provider]
        /\ response' =
              IF CalculatorRequestValid(amount, months)
              THEN calculate_endpoint(ticker, amount, months, provider)
              ELSE [status |-> 422, validation |-> "amount or months out of range"]
    /\ UNCHANGED <<users, registered, profiles, sessions, inflight>>

NextCalc == PostCalculate \/ Reply

SpecCalc == InitCalc /\ [][NextCalc]_vars

\* -- claims on the calculator

Calculated == request.endpoint = "calculate" /\ "result" \in DOMAIN response

\* C1: whenever calculate_projection succeeds, monthly_breakdown has exactly
\* `months` entries, the i-th entry has month index i, and final_value is
\* the value of the last entry.
C1_BreakdownShape ==
    (Calculated /\ response.status = 200) =>
        LET b == response.body.monthly_breakdown
        IN  /\ request.amount >= 10 * Unit
            /\ request.months \in 1..48
            /\ Len(b) = request.months
            /\ \A i \in 1..Len(b) : b[i].month = i
            /\ response.body.final_value = b[Len(b)].value

C1_Witness ==
    /\ Calculated
    /\ response.status = 200
    /\ request.months = 48
    /\ Len(response.body.monthly_breakdown) = 48
    /\ response.body.final_value > request.amount

\* what the claim calls the ticker: the request's ticker, upper-cased and trimmed
NamedTicker ==
    IF request.ticker = <<" ", "a", "a", "p", "l", " ">> THEN "AAPL" ELSE "XYZ"

ProviderFails ==
    \/ request.provider.kind = "raises"
    \/ Len(request.provider.rows) < 20
    \/ Cardinality({request.provider.rows[i].month :
                        i \in 1..Len(request.provider.rows)}) < 2

ProjectionFields ==
    {"ticker", "asset_name", "initial_amount", "final_value", "total_gain",
     "total_gain_pct", "avg_monthly_return_pct", "monthly_breakdown",
     "data_period", "disclaimer"}

\* C2: calculate_projection never raises: when the provider throws, returns
\* no data, fewer than 20 daily observations or fewer than 2 monthly closes
\* the result carries only an error text naming the ticker, otherwise it is a
\* full projection with no error field; the endpoint answers 422 with that
\* error text verbatim exactly when the result carries an error.
C2_ErrorOrProjection ==
    Calculated =>
        LET result == response.result IN
        /\ ProviderFails =>
              /\ DOMAIN result = {"error"}
              /\ result.error \in
                    {"No hay datos históricos suficientes para " \o NamedTicker,
                     "Datos insuficientes para calcular retorno mensual de " \o NamedTicker,
                     "No se pudo calcular la proyección para " \o NamedTicker
                        \o ": " \o "HTTP Error 404"}
        /\ ~ProviderFails =>
              /\ DOMAIN result = ProjectionFields
              /\ result.ticker = NamedTicker
        /\ ("error" \in DOMAIN result) <=>
              (response.status = 422 /\ "detail" \in DOMAIN response)
        /\ ("error" \in DOMAIN result) => response.detail = result.error
        /\ ("error" \notin DOMAIN result) =>
              (response.status = 200 /\ response.body = result)

C2_Witness ==
    /\ Calculated
    /\ response.status = 422
    /\ request.provider.kind = "history"
    /\ Len(request.provider.rows) >= 20
    /\ response.detail = "Datos insuficientes para calcular retorno mensual de AAPL"

\* ------------------------------------------------------- ticker resolver

\* KEYWORD_TO_TICKER in its iteration (insertion) order: <<keyword, ticker>>
KEYWORD_TO_TICKER == <<
    <<<<"a", "p", "p", "l", "e">>, <<"A", "A", "P", "L">>>>,
    <<<<"a", "a", "p", "l">>, <<"A", "A", "P", "L">>>>,
    <<<<"t", "e", "s", "l", "a">>, <<"T", "S", "L", "A">>>>,
    <<<<"t", "s", "l", "a">>, <<"T", "S", "L", "A">>>>,
    <<<<"g", "o", "o", "g", "l", "e">>, <<"G", "O", "O", "G", "L">>>>,
    <<<<"a", "l", "p", "h", "a", "b", "e", "t">>, <<"G", "O", "O", "G", "L">>>>,
    <<<<"g", "o", "o", "g", "l">>, <<"G", "O", "O", "G", "L">>>>,
    <<<<"m", "i", "c", "r", "o", "s", "o", "f", "t">>, <<"M", "S", "F", "T">>>>,
    <<<<"m", "s", "f", "t">>, <<"M", "S", "F", "T">>>>,
    <<<<"a", "m", "a", "z", "o", "n">>, <<"A", "M", "Z", "N">>>>,
    <<<<"a", "m", "z", "n">>, <<"A", "M", "Z", "N">>>>,
    <<<<"n", "v", "i", "d", "i", "a">>, <<"N", "V", "D", "A">>>>,
    <<<<"n", "v", "d", "a">>, <<"N", "V", "D", "A">>>>,
    <<<<"m", "e", "t", "a">>, <<"M", "E", "T", "A">>>>,
    <<<<"f", "a", "c", "e", "b", "o", "o", "k">>, <<"M", "E", "T", "A">>>>,
    <<<<"n", "e", "t", "f", "l", "i", "x">>, <<"N", "F", "L", "X">>>>,
    <<<<"n", "f", "l", "x">>, <<"N", "F", "L", "X">>>>,
    <<<<"u", "b", "e", "r">>, <<"U", "B", "E", "R">>>>,
    <<<<"a", "i", "r", "b", "n", "b">>, <<"A", "B", "N", "B">>>>,
    <<<<"d", "i", "s", "n", "e", "y">>, <<"D", "I", "S">>>>,
    <<<<"s", "a", "m", "s", "u", "n", "g">>, <<"0", "0", "5", "9", "3", "0", ".", "K", "S">>>>,
    <<<<"b", "i", "t", "c", "o", "i", "n">>, <<"B", "T", "C", "-", "U", "S", "D">>>>,
    <<<<"b", "t", "c">>, <<"B", "T", "C", "-", "U", "S", "D">>>>,
    <<<<"e", "t", "h", "e", "r", "e", "u", "m">>, <<"E", "T", "H", "-", "U", "S", "D">>>>,
    <<<<"e", "t", "h">>, <<"E", "T", "H", "-", "U", "S", "D">>>>,
    <<<<"s", "o", "l", "a", "n", "a">>, <<"S", "O", "L", "-", "U", "S", "D">>>>,
    <<<<"s", "o", "l">>, <<"S", "O", "L", "-", "U", "S", "D">>>>,
    <<<<"c", "a", "r", "d", "a", "n", "o">>, <<"A", "D", "A", "-", "U", "S", "D">>>>,
    <<<<"a", "d", "a">>, <<"A", "D", "A", "-", "U", "S", "D">>>>,
    <<<<"d", "o", "g", "e", "c", "o", "i", "n">>, <<"D", "O", "G", "E", "-", "U", "S", "D">>>>,
    <<<<"d", "o", "g", "e">>, <<"D", "O", "G", "E", "-", "U", "S", "D">>>>,
    <<<<"r", "i", "p", "p", "l", "e">>, <<"X", "R", "P", "-", "U", "S", "D">>>>,
    <<<<"x", "r", "p">>, <<"X", "R", "P", "-", "U", "S", "D">>>>,
    <<<<"s", "p", "5", "0", "0">>, <<"S", "P", "Y">>>>,
    <<<<"s", "p", "y">>, <<"S", "P", "Y">>>>,
    <<<<"s", "&", "p">>, <<"S", "P", "Y">>>>,
    <<<<"n", "a", "s", "d", "a", "q">>, <<"Q", "Q", "Q">>>>,
    <<<<"q", "q", "q">>, <<"Q", "Q", "Q">>>>,
    <<<<"o", "r", "o">>, <<"G", "L", "D">>>>,
    <<<<"g", "o", "l", "d">>, <<"G", "L", "D">>>>,
    <<<<"g", "l", "d">>, <<"G", "L", "D">>>>
    >>

STOP_WORDS == {
    "ACCION", "BAJO", "BOLSA", "COMO", "CON", "COTIZA",
    "CUAL", "CUANTO", "DEBERIA", "DEBO", "DEL", "ESTA",
    "HACER", "HAY", "HOY", "INVERTIR", "LAS", "LOS",
    "MAS", "MEJOR", "MERCADO", "PARA", "PEOR", "POR",
    "PRECIO", "PUEDO", "QUE", "QUIERO", "RIESGO", "SECTORES",
    "SON", "SUS", "TIENE", "UNA", "VALE"
    }

\* Python's `sub in s`
contains(sub, s) ==
    \E i \in 0..(Len(s) - Len(sub)) : SubSeq(s, i + 1, i + Len(sub)) = sub

\* the scan returning the hit with the longest keyword
keyword_scan_longest(i, lower_msg) ==
    LET hits == {k \in i..Len(KEYWORD_TO_TICKER) :
                    contains(KEYWORD_TO_TICKER[k][1], lower_msg)}
    IN  IF hits = {} THEN <<>>
        ELSE LET best == CHOOSE k \in hits : \A j \in hits :
                     \/ Len(KEYWORD_TO_TICKER[k][1]) > Len(KEYWORD_TO_TICKER[j][1])
                     \/ /\ Len(KEYWORD_TO_TICKER[k][1]) = Len(KEYWORD_TO_TICKER[j][1])
                        /\ k <= j
             IN  <<KEYWORD_TO_TICKER[best][2]>>

\* for keyword, ticker in KEYWORD_TO_TICKER.items(): if keyword in lower_msg:
\* return ticker.  <<ticker>> of the first hit from entry i on, <<>> if none.
RECURSIVE keyword_scan(_, _)
keyword_scan(i, lower_msg) ==
    IF i > Len(KEYWORD_TO_TICKER) THEN <<>>
    ELSE IF contains(KEYWORD_TO_TICKER[i][1], lower_msg)
         THEN <<KEYWORD_TO_TICKER[i][2]>>
         ELSE keyword_scan(i + 1, lower_msg)

keyword_match(lower_msg) == keyword_scan(1, lower_msg)

\* [A-Z]{1,5} at position i of s, greedy: how many letters it takes (0..5)
RECURSIVE letters_at(_, _, _)
letters_at(s, i, taken) ==
    IF taken < 5 /\ i + taken <= Len(s) /\ IsUpperLetter(s[i + taken])
    THEN letters_at(s, i, taken + 1)
    ELSE taken

UsdSuffix == <<"-", "U", "S", "D">>

\* how many of the `want` characters after position i the text s has
LenUpTo(s, i, want) == IF Len(s) - i >= want THEN want
                       ELSE IF Len(s) - i > 0 THEN Len(s) - i ELSE 0

\* re.search(r"\$([A-Z]{1,5}(?:-USD)?)", s) from position i on: <<group(1)>>
\* of the leftmost match, <<>> if there is none
RECURSIVE dollar_search(_, _)
dollar_search(s, i) ==
    IF i > Len(s) THEN <<>>
    ELSE LET n == IF s[i] = "$" THEN letters_at(s, i + 1, 0) ELSE 0
         IN  IF n = 0 THEN dollar_search(s, i + 1)
             ELSE LET symbol == SubSeq(s, i + 1, i + n)
                      after == [k \in 1..LenUpTo(s, i + n, 4) |-> s[i + n + k]]
                  IN  <<IF after = UsdSuffix THEN symbol \o UsdSuffix ELSE symbol>>

dollar_match(upper_msg) == dollar_search(upper_msg, 1)

\* the characters re.sub(r"[¿?¡!.,;:\"'()\n]", " ", message) blanks
Punctuation == {"¿", "?", "¡", "!", ".", ",", ";", ":", "\"", "'", "(", ")", "\n"}

blank_punctuation(s) ==
    [i \in 1..Len(s) |-> IF s[i] \in Punctuation THEN " " ELSE s[i]]

\* str.split(): the maximal runs of non-whitespace characters, in order
RECURSIVE split_loop(_, _, _, _)
split_loop(s, i, word, words) ==
    IF i > Len(s)
    THEN IF word = <<>> THEN words ELSE Append(words, word)
    ELSE IF s[i] \in Whitespace
         THEN split_loop(s, i + 1, <<>>,
                         IF word = <<>> THEN words ELSE Append(words, word))
         ELSE split_loop(s, i + 1, Append(word, s[i]), words)

split(s) == split_loop(s, 1, <<>>, <<>>)

\* re.sub(r"[^A-Z]", "", word.upper())
clean_word(word) == SelectSeq(upper(word), IsUpperLetter)

\* for word in words: ... if 2 <= len(clean) <= 5 and clean not in STOP_WORDS
RECURSIVE word_scan(_, _)
word_scan(words, i) ==
    IF i > Len(words) THEN <<>>
    ELSE LET clean == clean_word(words[i])
         IN  IF 2 <= Len(clean) /\ Len(clean) <= 5 /\ Join(clean) \notin STOP_WORDS
             THEN <<clean>>
             ELSE word_scan(words, i + 1)

Unknown == <<"U", "N", "K", "N", "O", "W", "N">>

\* extract_ticker_from_message(message)
extract_ticker_from_message(message) ==
    LET words == split(blank_punctuation(message))
        lower_msg == lower(message)
        keyword == keyword_match(lower_msg)
        dollar_match_ == dollar_match(upper(message))
        word == word_scan(words, 1)
    IN  IF keyword /= <<>> THEN keyword[1]
        ELSE IF dollar_match_ /= <<>> THEN dollar_match_[1]
        ELSE IF word /= <<>> THEN word[1]
        ELSE Unknown

\* -- the resolver's inputs: messages of up to MaxWords words of Vocabulary,
\* a space between them, and the three messages the documentation names

MaxWords == 2

W_hola == <<"h", "o", "l", "a">>
W_que == <<"q", "u", "e">>
W_tal == <<"t", "a", "l">>
W_quiero == <<"q", "u", "i", "e", "r", "o">>
W_comprar == <<"c", "o", "m", "p", "r", "a", "r">>
W_bitcoin == <<"b", "i", "t", "c", "o", "i", "n">>
W_AAPL == <<"$", "A", "A", "P", "L">>
W_a == <<"a">>
W_buen == <<"b", "u", "e", "n">>
W_precio == <<"p", "r", "e", "c", "i", "o">>

Vocabulary == {
    W_hola, W_que, W_a, W_bitcoin,
    <<"A", "p", "p", "l", "e">>,
    <<"n", "a", "d", "a">>,
    <<"$", "K", "O">>,
    <<"$", "l", "t", "c", "-", "U", "S", "D">>,
    <<"$", "A", "B", "C", "D", "E", "F", "G">>,
    <<"$", "5">>,
    <<"p", "r", "e", "c", "i", "o", ",">>,
    <<"I", "B", "M", ".">>,
    <<"¿", "h", "o", "y", "?">>,
    <<"x", "-", "y", "2">> }

RECURSIVE join_words(_)
join_words(ws) ==
    IF ws = <<>> THEN <<>>
    ELSE IF Len(ws) = 1 THEN ws[1]
    ELSE ws[1] \o <<" ">> \o join_words(Tail(ws))

QuieroComprarBitcoin == join_words(<<W_quiero, W_comprar, W_bitcoin>>)
AAPLABuenPrecio == join_words(<<W_AAPL, W_a, W_buen, W_precio>>)
HolaQueTal == join_words(<<W_hola, W_que, W_tal>>)

Messages ==
    {QuieroComprarBitcoin, AAPLABuenPrecio, HolaQueTal}
    \cup {join_words(ws) : ws \in UNION {[1..n -> Vocabulary] : n \in 0..MaxWords}}

InitResolver ==
    /\ request = Idle
    /\ response = NoResponse
    /\ users = <<>>
    /\ registered = {}
    /\ profiles = <<>>
    /\ sessions = <<>>
    /\ inflight = <<>>

\* a call of extract_ticker_from_message
Resolve ==
    /\ request = Idle
    /\ \E message \in Messages :
        /\ request' = [endpoint |-> "resolve", message |-> message]
        /\ response' = [status |-> 200,
                        ticker |-> Join(extract_ticker_from_message(message))]
    /\ UNCHANGED <<users, registered, profiles, sessions, inflight>>

NextResolver == Resolve \/ Reply

SpecResolver == InitResolver /\ [][NextResolver]_vars

\* -- claims on the resolver

Resolved == request.endpoint = "resolve"

\* the entries of the keyword table whose keyword the lower-cased message holds
KeywordHits ==
    LET low == lower(request.message)
    IN  {k \in 1..Len(KEYWORD_TO_TICKER) : contains(KEYWORD_TO_TICKER[k][1], low)}

\* the places of the upper-cased message where a `$` is followed by a letter
CashTagPlaces ==
    LET up == upper(request.message)
    IN  {i \in 1..(Len(up) - 1) : up[i] = "$" /\ IsUpperLetter(up[i + 1])}

\* the symbol at the first cash-tag: up to five letters, then -USD if it follows
CashTagSymbol ==
    LET up == upper(request.message)
        i == CHOOSE p \in CashTagPlaces : \A o \in CashTagPlaces : p <= o
        n == CHOOSE k \in 1..5 :
                /\ i + k <= Len(up)
                /\ \A j \in 1..k : IsUpperLetter(up[i + j])
                /\ (k = 5 \/ i + k = Len(up) \/ ~IsUpperLetter(up[i + k + 1]))
        usd == /\ i + n + 4 <= Len(up)
               /\ SubSeq(up, i + n + 1, i + n + 4) = <<"-", "U", "S", "D">>
    IN  SubSeq(up, i + 1, i + n) \o (IF usd THEN <<"-", "U", "S", "D">> ELSE <<>>)

IsSeparator(c) == c \in Whitespace \cup Punctuation

\* the places where a word of the message starts, and the word's letters
WordStarts ==
    {i \in 1..Len(request.message) :
        /\ ~IsSeparator(request.message[i])
        /\ (i = 1 \/ IsSeparator(request.message[i - 1]))}

WordLettersAt(i) ==
    LET m == request.message
        last == CHOOSE j \in i..Len(m) :
                    /\ \A k \in i..j : ~IsSeparator(m[k])
                    /\ (j = Len(m) \/ IsSeparator(m[j + 1]))
    IN  SelectSeq(upper(SubSeq(m, i, last)), IsUpperLetter)

QualifyingStarts ==
    {i \in WordStarts :
        /\ Len(WordLettersAt(i)) \in 2..5
        /\ Join(WordLettersAt(i)) \notin STOP_WORDS}

C4_HolaQueTalUnknown ==
    (Resolved /\ request.message = HolaQueTal) =>
        /\ KeywordHits = {}
        /\ CashTagPlaces = {}
        /\ response.ticker = "UNKNOWN"

\* ------------------------------------------------------- risk classifier

\* The LLM's reply is modelled as a sequence of lexical tokens: a code-fence
\* marker, white space, a JSON punctuation mark, a JSON string, or prose.
Tok(t) == [t |-> t]
Str(v) == [t |-> "str", v |-> v]

FenceMarkers == {Tok("fence-json"), Tok("fence")}

\* text.strip() on tokens
RECURSIVE lstrip_tokens(_)
lstrip_tokens(text) ==
    IF text /= <<>> /\ Head(text) = Tok("ws") THEN lstrip_tokens(Tail(text)) ELSE text
RECURSIVE rstrip_tokens(_)
rstrip_tokens(text) ==
    IF text /= <<>> /\ text[Len(text)] = Tok("ws")
    THEN rstrip_tokens(SubSeq(text, 1, Len(text) - 1)) ELSE text
strip_tokens(text) == rstrip_tokens(lstrip_tokens(text))

\* re.sub(r"```json|```", "", text).strip(): the two code-fence markers are
\* the tokens fence-json and fence
IsNoFence(tok) == tok \notin FenceMarkers
strip_fences(text) == strip_tokens(SelectSeq(text, IsNoFence))

\* json.loads(text) for the JSON this model writes: an object of string
\* members, an array of strings, or a string.  [ok |-> FALSE] is
\* json.JSONDecodeError.
IsNoSpace(tok) == tok /= Tok("ws")
IsStr(tok) == tok.t = "str"

\* str (, str)* or str : str (, str : str)* with `width` tokens an item
RECURSIVE IsList(_, _)
IsList(toks, width) ==
    /\ Len(toks) >= width
    /\ IsStr(toks[1])
    /\ width = 3 => (toks[2] = Tok(":") /\ IsStr(toks[3]))
    /\ \/ Len(toks) = width
       \/ /\ Len(toks) > width + 1
          /\ toks[width + 1] = Tok(",")
          /\ IsList(SubSeq(toks, width + 2, Len(toks)), width)

\* the members of an object: the value of the last member of each name
Members(inner) ==
    LET names == {inner[i].v : i \in {j \in 1..Len(inner) : j % 4 = 1}}
        LastOf(name) == CHOOSE i \in 1..Len(inner) :
                            /\ i % 4 = 1 /\ inner[i].v = name
                            /\ \A j \in (i + 1)..Len(inner) :
                                  ~(j % 4 = 1 /\ inner[j].v = name)
    IN  [name \in names |-> inner[LastOf(name) + 2].v]

json_loads(text) ==
    LET toks == SelectSeq(text, IsNoSpace)
        n == Len(toks)
        inner == IF n >= 2 THEN SubSeq(toks, 2, n - 1) ELSE <<>>
    IN  IF n = 1 /\ IsStr(toks[1])
        THEN [ok |-> TRUE, type |-> "str", value |-> toks[1].v]
        ELSE IF n >= 2 /\ toks[1] = Tok("[") /\ toks[n] = Tok("]")
                /\ (inner = <<>> \/ IsList(inner, 1))
        THEN [ok |-> TRUE, type |-> "list"]
        ELSE IF n >= 2 /\ toks[1] = Tok("{") /\ toks[n] = Tok("}")
                /\ (inner = <<>> \/ IsList(inner, 3))
        THEN [ok |-> TRUE, type |-> "dict",
              value |-> IF inner = <<>> THEN [name \in {} |-> ""] ELSE Members(inner)]
        ELSE [ok |-> FALSE]

\* the fallback of every field being the empty string
dict_get_blank(data, key, default) == IF key \in DOMAIN data THEN data[key] ELSE ""

\* data.get(key, default)
dict_get(data, key, default) == IF key \in DOMAIN data THEN data[key] ELSE default

\* the default with the recommendation left out
RiskDefaultBare ==
    [profile |-> "Moderado",
     explanation |-> "No pudimos procesar tu test completamente, pero te asignamos un perfil Moderado por defecto.",
     recommendations |-> ""]

\* except Exception: the fixed default
RiskDefault ==
    [profile |-> "Moderado",
     explanation |-> "No pudimos procesar tu test completamente, pero te asignamos un perfil Moderado por defecto.",
     recommendations |-> "Considera ETFs diversificados como SPY o QQQ como punto de partida."]

\* evaluate_risk_profile(answers, user_name).  genai_model is what
\* genai.GenerativeModel(MODEL_NAME) does, llm what generate_content does:
\* it raises, or it returns a response whose text is None or a token sequence.
evaluate_risk_profile(answers, user_name, genai_model, llm) ==
    IF genai_model = "raises" THEN RiskDefault
    ELSE IF llm.kind = "raises" THEN RiskDefault
    ELSE IF llm.kind = "none" THEN RiskDefault
    ELSE LET text == strip_fences(strip_tokens(llm.text))
             data == json_loads(text)
         IN  IF ~data.ok THEN RiskDefault
             ELSE IF data.type /= "dict" THEN RiskDefault
             ELSE [profile |-> dict_get(data.value, "profile", "Moderado"),
                   explanation |-> dict_get(data.value, "explanation", ""),
                   recommendations |-> dict_get(data.value, "recommendations", "")]

\* POST /api/risk-test/evaluate
evaluate_risk_test(answers, user_name, genai_model, llm) ==
    IF Len(answers) < 5
    THEN [status |-> 400,
          detail |-> "Se necesitan 5 respuestas, se recibieron " \o ToString(Len(answers))]
    ELSE [status |-> 200,
          body |-> evaluate_risk_profile(answers, user_name, genai_model, llm)]

\* -- the classifier's inputs

MaxAnswers == 6

AnswerLists == {[i \in 1..n |-> "b"] : n \in 0..MaxAnswers}
UserNames == {<<>>, <<"Ana">>}

ProfileMembers == {<<>>} \cup
    {<<Str("profile"), Tok(":"), Str(p)>> : p \in {"Conservador", "Agresivo"}}
ExplanationMembers == {<<>>, <<Str("explanation"), Tok(":"), Str("Buscas crecer.")>>}
RecommendationMembers == {<<>>, <<Str("recommendations"), Tok(":"), Str("SPY y NVDA.")>>}

\* the members of an object written out, a comma and a space between them
RECURSIVE WriteMembers(_)
WriteMembers(ms) ==
    LET rest == SelectSeq(ms, LAMBDA m : m /= <<>>)
    IN  IF rest = <<>> THEN <<>>
        ELSE IF Len(rest) = 1 THEN rest[1]
        ELSE rest[1] \o <<Tok(","), Tok("ws")>> \o WriteMembers(Tail(rest))

ObjectTexts ==
    {<<Tok("{"), Tok("ws")>> \o WriteMembers(<<p, e, r>>) \o <<Tok("}")>> :
        p \in ProfileMembers, e \in ExplanationMembers, r \in RecommendationMembers}

\* bodies that json.loads rejects, and JSON that is no object
BrokenTexts ==
    {<<>>,
     <<Tok("prose")>>,
     <<Tok("prose"), Tok("ws"), Tok("{"), Str("profile"), Tok(":"), Str("Agresivo"), Tok("}")>>,
     <<Tok("{"), Str("profile"), Tok(":"), Str("Agresivo")>>,
     <<Tok("{"), Str("profile"), Str("Agresivo"), Tok("}")>>,
     <<Tok("{"), Str("profile"), Tok(":"), Str("Agresivo"), Tok(","), Tok("}")>>}
NonObjectTexts ==
    {<<Str("Agresivo")>>, <<Tok("["), Str("Agresivo"), Tok("]")>>, <<Tok("["), Tok("]")>>}

\* a body as the LLM sends it: bare, or inside a code fence
Fenced(body) ==
    {body,
     <<Tok("ws")>> \o body \o <<Tok("ws")>>,
     <<Tok("fence-json"), Tok("ws")>> \o body \o <<Tok("ws"), Tok("fence")>>,
     <<Tok("fence"), Tok("ws")>> \o body \o <<Tok("ws"), Tok("fence"), Tok("ws")>>}

LlmTexts(bodies, what) ==
    UNION {{[kind |-> "text", what |-> what, body |-> b, text |-> t] : t \in Fenced(b)} :
              b \in bodies}

LlmAnswers ==
    {[kind |-> "raises"], [kind |-> "none"]}
    \cup LlmTexts(ObjectTexts, "object")
    \cup LlmTexts(BrokenTexts, "broken")
    \cup LlmTexts(NonObjectTexts, "non-object")

InitRisk ==
    /\ request = Idle
    /\ response = NoResponse
    /\ users = <<>>
    /\ registered = {}
    /\ profiles = <<>>
    /\ sessions = <<>>
    /\ inflight = <<>>

PostRiskEvaluate ==
    /\ request = Idle
    /\ \E answers \in AnswerLists, user_name \in UserNames,
          genai_model \in {"ok", "raises"}, llm \in LlmAnswers :
        /\ request' = [endpoint |-> "risk-evaluate", answers |-> answers,
                       user_name |-> user_name, genai_model |-> genai_model,
                       llm |-> llm]
        /\ response' = evaluate_risk_test(answers, user_name, genai_model, llm)
    /\ UNCHANGED <<users, registered, profiles, sessions, inflight>>

NextRisk == PostRiskEvaluate \/ Reply

SpecRisk == InitRisk /\ [][NextRisk]_vars

\* -- claims on the classifier

RiskEvaluated == request.endpoint = "risk-evaluate" /\ response.status = 200

\* the names of the members the LLM's object has
SentFields ==
    {request.llm.body[i].v :
        i \in {j \in 1..(Len(request.llm.body) - 1) :
                  request.llm.body[j].t = "str" /\ request.llm.body[j + 1] = Tok(":")}}

\* the value the LLM's object gives a member
SentValue(name) ==
    LET i == CHOOSE j \in 1..(Len(request.llm.body) - 2) :
                 request.llm.body[j] = Str(name) /\ request.llm.body[j + 1] = Tok(":")
    IN  request.llm.body[i + 2].v

\* C5: evaluate_risk_profile never raises: when the LLM call fails or its
\* text is not valid JSON once the code-fence markers are stripped, it
\* returns exactly the fixed default.
C5_DefaultOnFailure ==
    (/\ RiskEvaluated
     /\ \/ request.genai_model = "raises"
        \/ request.llm.kind \in {"raises", "none"}
        \/ request.llm.what = "broken") =>
        /\ response.body.profile = "Moderado"
        /\ response.body.explanation = "No pudimos procesar tu test completamente, pero te asignamos un perfil Moderado por defecto."
        /\ response.body.recommendations = "Considera ETFs diversificados como SPY o QQQ como punto de partida."

C5_Witness ==
    /\ RiskEvaluated
    /\ request.genai_model = "ok"
    /\ request.llm.kind = "text"
    /\ request.llm.what = "broken"
    /\ Tok("fence-json") \in {request.llm.text[i] : i \in 1..Len(request.llm.text)}
    /\ Tok("{") \in {request.llm.text[i] : i \in 1..Len(request.llm.text)}
    /\ response.body.profile = "Moderado"

LlmSentObject ==
    /\ RiskEvaluated
    /\ request.genai_model = "ok"
    /\ request.llm.kind = "text"
    /\ request.llm.what = "object"

\* C6 as stated: an object that lacks any of profile, explanation,
\* recommendations is answered with the complete fixed default.
C6_DefaultOnMissingField ==
    (LlmSentObject /\ SentFields /= {"profile", "explanation", "recommendations"}) =>
        /\ response.body.profile = "Moderado"
        /\ response.body.explanation = "No pudimos procesar tu test completamente, pero te asignamos un perfil Moderado por defecto."
        /\ response.body.recommendations = "Considera ETFs diversificados como SPY o QQQ como punto de partida."

\* C6 amended: an object that lacks a field is answered field by field: a
\* field it has is returned as sent, a missing profile is "Moderado", a
\* missing explanation or recommendations is the empty string.
C6_PerFieldDefault ==
    LlmSentObject =>
        /\ response.body.profile =
              IF "profile" \in SentFields THEN SentValue("profile") ELSE "Moderado"
        /\ response.body.explanation =
              IF "explanation" \in SentFields THEN SentValue("explanation") ELSE ""
        /\ response.body.recommendations =
              IF "recommendations" \in SentFields
              THEN SentValue("recommendations") ELSE ""

C6_Witness ==
    /\ LlmSentObject
    /\ SentFields = {"profile", "recommendations"}
    /\ response.body.profile = "Agresivo"
    /\ response.body.explanation = ""
    /\ response.body.recommendations = "SPY y NVDA."

\* ------------------------------------------------- registration and login

\* Optional values: <<>> is None (NULL), <<x>> is the value x.
None == <<>>
Some(x) == <<x>>

SECRET_KEY == "investi-super-secret-key-2026-cambiar-en-produccion"
ALGORITHM == "HS256"
ACCESS_TOKEN_EXPIRE_MINUTES == 60 * 24

\* bcrypt.hashpw(password, salt): the salt and the digest of salt and password
hashpw(password, salt) == [salt |-> salt, digest |-> <<salt, password>>]

\* hash_password(password), gensalt() giving `salt`
hash_password(password, salt) == hashpw(password, salt)

\* verify_password(plain, hashed): bcrypt.checkpw hashes plain with hashed's salt
verify_password(plain, hashed) == hashpw(plain, hashed.salt) = hashed

\* jwt.encode(claims, key, algorithm)
jwt_encode(claims, key, algorithm) ==
    [header |-> [alg |-> algorithm, typ |-> "JWT"], claims |-> claims, key |-> key]

\* create_access_token(data={"sub": str(user.id)}, expires_delta), utcnow() = now
create_access_token(user, expires_delta, now) ==
    jwt_encode([sub |-> ToString(user.id), exp |-> now + expires_delta],
               SECRET_KEY, ALGORITHM)

\* the lookup that finds nothing
no_user_by_email(rows, email) == None

\* db.query(User).filter(User.email == email).first()
first_user_by_email(rows, email) ==
    LET hits == {i \in 1..Len(rows) : rows[i].email = Some(email)}
    IN  IF hits = {} THEN None
        ELSE Some(rows[CHOOSE i \in hits : \A j \in hits : i <= j])

\* db.add(user); db.commit(): the row gets the next id; the UNIQUE index on
\* users.email (NULLs apart) makes the commit fail with IntegrityError
commit_user(rows, row) ==
    IF row.email /= None /\ \E i \in 1..Len(rows) : rows[i].email = row.email
    THEN [ok |-> FALSE]
    ELSE [ok |-> TRUE,
          user |-> [id |-> Len(rows) + 1] @@ row,
          rows |-> Append(rows, [id |-> Len(rows) + 1] @@ row)]

TokenResponse(status, token, user) ==
    [status |-> status,
     body |-> [access_token |-> token, token_type |-> "bearer",
               user_id |-> user.id, name |-> user.name]]

IntegrityError == [status |-> 500, detail |-> "Internal Server Error"]

\* POST /api/auth/register: <<response, rows of the users table afterwards>>
register(rows, data, salt, now) ==
    LET existing == first_user_by_email(rows, data.email) IN
    IF existing /= None
    THEN <<[status |-> 409, detail |-> "Este email ya está registrado"], rows>>
    ELSE LET saved == commit_user(rows, [name |-> data.name,
                                        email |-> Some(data.email),
                                        password_hash |-> Some(hash_password(data.password, salt))])
         IN  IF ~saved.ok THEN <<IntegrityError, rows>>
             ELSE <<TokenResponse(201,
                        create_access_token(saved.user, ACCESS_TOKEN_EXPIRE_MINUTES, now),
                        saved.user),
                    saved.rows>>

\* POST /api/auth/login
login(rows, form, now) ==
    LET user == first_user_by_email(rows, form.username) IN
    IF \/ user = None
       \/ user[1].password_hash = None
       \/ ~verify_password(form.password, user[1].password_hash[1])
    THEN [status |-> 401, detail |-> "Email o contraseña incorrectos"]
    ELSE TokenResponse(200,
             create_access_token(user[1], ACCESS_TOKEN_EXPIRE_MINUTES, now), user[1])

\* POST /api/users: <<response, rows afterwards>>; email is None, or Some text
\* ("" is falsy and skips the lookup)
create_user(rows, user_data) ==
    LET existing == IF user_data.email /= None /\ user_data.email /= Some("")
                    THEN first_user_by_email(rows, user_data.email[1])
                    ELSE None
    IN  IF existing /= None
        THEN <<[status |-> 409, detail |-> "Este email ya está registrado"], rows>>
        ELSE LET saved == commit_user(rows, [name |-> user_data.name,
                                            email |-> user_data.email,
                                            password_hash |-> None])
             IN  IF ~saved.ok THEN <<IntegrityError, rows>>
                 ELSE <<[status |-> 201,
                         body |-> [id |-> saved.user.id, name |-> saved.user.name,
                                   email |-> saved.user.email]],
                        saved.rows>>

\* -- the inputs of registration and login

MaxUsers == 3
Emails == {"ana@x.io", "luis@x.io"}
Passwords == {"secreto1", "secreto2"}
Salts == {"$2b$12$aaaa", "$2b$12$bbbb"}
Clock == {0, 90}

InitAuth ==
    /\ request = Idle
    /\ response = NoResponse
    /\ users = <<>>
    /\ registered = {}
    /\ profiles = <<>>
    /\ sessions = <<>>
    /\ inflight = <<>>

PostRegister ==
    /\ request = Idle
    /\ Len(users) < MaxUsers
    /\ \E email \in Emails, password \in Passwords, salt \in Salts, now \in Clock :
        LET data == [name |-> "Ana", email |-> email, password |-> password]
            done == register(users, data, salt, now)
        IN  /\ request' = [endpoint |-> "register", data |-> data]
            /\ response' = done[1]
            /\ users' = done[2]
            /\ registered' =
                  IF done[1].status = 201
                  THEN registered \cup {[email |-> email, password |-> password,
                                         user_id |-> done[1].body.user_id]}
                  ELSE registered
    /\ UNCHANGED <<profiles, sessions, inflight>>

PostLogin ==
    /\ request = Idle
    /\ \E username \in Emails \cup {""}, password \in Passwords, now \in Clock :
        LET form == [username |-> username, password |-> password]
        IN  /\ request' = [endpoint |-> "login", form |-> form]
            /\ response' = login(users, form, now)
    /\ UNCHANGED <<users, registered, profiles, sessions, inflight>>

PostUsers ==
    /\ request = Idle
    /\ Len(users) < MaxUsers
    /\ \E email \in {None, Some("")} \cup {Some(e) : e \in Emails} :
        LET user_data == [name |-> "Luis", email |-> email]
            done == create_user(users, user_data)
        IN  /\ request' = [endpoint |-> "users", user_data |-> user_data]
            /\ response' = done[1]
            /\ users' = done[2]
    /\ UNCHANGED <<registered, profiles, sessions, inflight>>

NextAuth == PostRegister \/ PostLogin \/ PostUsers \/ Reply

SpecAuth == InitAuth /\ [][NextAuth]_vars

\* -- claims on registration and login

\* the subject embedded in a token
TokenSubject(token) == token.claims.sub

\* a register request whose email is stored is answered 409 and adds no user
DuplicateRejected ==
    (/\ request'.endpoint = "register"
     /\ \E i \in 1..Len(users) : users[i].email = <<request'.data.email>>) =>
        /\ response'.status = 409
        /\ users' = users

\* a registration that succeeded returns the id of the row it created, and a
\* login with the email and password of a registration is answered 200 with
\* a token whose subject is that id
LoginFindsRegistered ==
    /\ (request.endpoint = "register" /\ response.status = 201) =>
          /\ users[Len(users)].email = <<request.data.email>>
          /\ response.body.user_id = users[Len(users)].id
          /\ TokenSubject(response.body.access_token) = ToString(users[Len(users)].id)
    /\ request.endpoint = "login" =>
          \A r \in registered :
              (r.email = request.form.username /\ r.password = request.form.password) =>
                  /\ response.status = 200
                  /\ response.body.user_id = r.user_id
                  /\ TokenSubject(response.body.access_token) = ToString(r.user_id)

TOP_ASSETS == <<
    [ticker |-> <<"A", "A", "P", "L">>, name |-> "Apple", category |-> "Acciones"],
    [ticker |-> <<"T", "S", "L", "A">>, name |-> "Tesla", category |-> "Acciones"],
    [ticker |-> <<"G", "O", "O", "G", "L">>, name |-> "Google", category |-> "Acciones"],
    [ticker |-> <<"M", "S", "F", "T">>, name |-> "Microsoft", category |-> "Acciones"],
    [ticker |-> <<"N", "V", "D", "A">>, name |-> "NVIDIA", category |-> "Acciones"],
    [ticker |-> <<"A", "M", "Z", "N">>, name |-> "Amazon", category |-> "Acciones"],
    [ticker |-> <<"B", "T", "C", "-", "U", "S", "D">>, name |-> "Bitcoin", category |-> "Cripto"],
    [ticker |-> <<"E", "T", "H", "-", "U", "S", "D">>, name |-> "Ethereum", category |-> "Cripto"],
    [ticker |-> <<"S", "P", "Y">>, name |-> "S&P 500 ETF", category |-> "ETFs"] >>

\* What the provider holds for one ticker: the access raises (kind "raises":
\* history() fails, the batch frame has no column of that ticker), or a frame
\* (kind "rows") whose Close column is `closes`, None being NaN; prices are in
\* units.
\* Series.dropna() / DataFrame.dropna(subset=["Close"])
dropna(closes) == SelectSeq(closes, LAMBDA c : c /= None)

\* iloc[-1]
latest_price(closes) == closes[Len(closes)][1]

\* the previous price of a lone observation taken to be 0
previous_price_zero(closes) ==
    IF Len(closes) >= 2 THEN closes[Len(closes) - 1][1] ELSE 0

\* iloc[-2] if len >= 2 else price
previous_price(closes) ==
    IF Len(closes) >= 2 THEN closes[Len(closes) - 1][1] ELSE latest_price(closes)

\* (change / prev_price) * 100 if prev_price != 0 else 0, to 2 places, in
\* 1/100 of a percent
change_pct(change, prev_price) ==
    IF prev_price /= 0 THEN pct2(change, prev_price) ELSE 0

\* -- format specifications

abs(x) == IF x < 0 THEN 0 - x ELSE x
pad2(n) == IF n < 10 THEN "0" \o ToString(n) ELSE ToString(n)
pad3(n) == IF n < 10 THEN "00" \o ToString(n) ELSE IF n < 100 THEN "0" \o ToString(n) ELSE ToString(n)

\* the "," option: the whole part in groups of three digits
RECURSIVE group3(_)
group3(n) ==
    IF n < 1000 THEN ToString(n)
    ELSE group3(n \div 1000) \o "," \o pad3(n % 1000)

\* f"{x:,.2f}" of x units
format_comma_2f(x) ==
    LET cents == RoundHalfEvenDiv(abs(x), Cent)
    IN  (IF x < 0 THEN "-" ELSE "") \o group3(cents \div 100) \o "." \o pad2(cents % 100)

\* f"{x:+.2f}" of a value of `hundredths` after rounding; the sign is the
\* value's own, also when it rounds to zero
format_plus_2f(negative, hundredths) ==
    (IF negative THEN "-" ELSE "+")
        \o ToString(abs(hundredths) \div 100) \o "." \o pad2(abs(hundredths) % 100)

\* info.get("longName") or info.get("shortName") or ticker_symbol.upper();
\* "" stands for every falsy entry (absent, None, empty)
friendly_name(ticker_symbol, info) ==
    IF info.raises THEN Join(upper(ticker_symbol))
    ELSE IF info.longName /= "" THEN info.longName
    ELSE IF info.shortName /= "" THEN info.shortName
    ELSE Join(upper(ticker_symbol))

\* _get_yfinance_data(ticker_symbol), the provider holding `quote` and
\* answering the info lookup with `info`
_get_yfinance_data(ticker_symbol, quote, info) ==
    IF quote.kind = "raises"
    THEN [error |-> "No se pudo obtener datos para '" \o Join(ticker_symbol) \o "'"]
    ELSE IF quote.closes = <<>>
    THEN [error |-> "No se encontraron datos para '" \o Join(ticker_symbol) \o "'"]
    ELSE LET hist == dropna(quote.closes) IN
         IF Len(hist) < 1
         THEN [error |-> "No hay datos de cierre para '" \o Join(ticker_symbol) \o "'"]
         ELSE LET price == latest_price(hist)
                  prev_price == previous_price(hist)
                  change == price - prev_price
              IN  [source |-> "yfinance",
                   ticker |-> Join(upper(ticker_symbol)),
                   name |-> friendly_name(ticker_symbol, info),
                   price |-> format_comma_2f(price),
                   change |-> format_plus_2f(change < 0, RoundHalfEvenDiv(abs(change), Cent)),
                   change_percent |->
                       format_plus_2f(change < 0 /\ prev_price /= 0,
                                      change_pct(change, prev_price)) \o "%",
                   currency |-> "USD"]

\* the body of the batch loop for one asset: <<>> when the asset is skipped
\* (data[ticker]["Close"] raises, or no close is left), else the entry
batch_entry(asset, quote) ==
    IF quote.kind = "raises" THEN <<>>
    ELSE LET ticker_data == dropna(quote.closes) IN
         IF Len(ticker_data) < 1 THEN <<>>
         ELSE LET price == latest_price(ticker_data)
                  prev_price == previous_price(ticker_data)
                  change == price - prev_price
              IN  << [ticker |-> Join(asset.ticker),
                      name |-> asset.name,
                      category |-> asset.category,
                      price |-> round2(price),
                      change |-> round2(change),
                      change_pct |-> change_pct(change, prev_price),
                      currency |-> "USD"] >>

\* for asset in TOP_ASSETS, from asset i on (batch frame)
RECURSIVE batch_loop(_, _)
batch_loop(i, quotes) ==
    IF i > Len(TOP_ASSETS) THEN <<>>
    ELSE batch_entry(TOP_ASSETS[i], quotes[i]) \o batch_loop(i + 1, quotes)

\* every item kept
keep_any(item) == TRUE

\* if item and "error" not in item (a dict with a key is never falsy)
keep_item(item) == "error" \notin DOMAIN item

\* for asset in TOP_ASSETS, from asset i on (individual requests)
RECURSIVE fallback_loop(_, _, _)
fallback_loop(i, quotes, info) ==
    IF i > Len(TOP_ASSETS) THEN <<>>
    ELSE LET asset == TOP_ASSETS[i]
             item == _get_yfinance_data(asset.ticker, quotes[i], info)
         IN  (IF keep_item(item)
              THEN << [category |-> asset.category] @@ item >>
              ELSE <<>>)
             \o fallback_loop(i + 1, quotes, info)

\* get_top_assets(): yf.download raises (batch = "raises") or returns the frame
\* of `quotes`, one per curated asset
get_top_assets(batch, quotes, info) ==
    IF batch = "raises" THEN fallback_loop(1, quotes, info)
    ELSE batch_loop(1, quotes)

\* GET /api/market/top
market_top_assets(batch, quotes, info) ==
    [status |-> 200, body |-> [assets |-> get_top_assets(batch, quotes, info)]]

\* GET /api/market/{ticker}
market_single_asset(ticker, quote, info) ==
    LET data == _get_yfinance_data(upper(ticker), quote, info) IN
    IF "error" \in DOMAIN data
    THEN [status |-> 404, detail |-> data.error]
    ELSE [status |-> 200, body |-> data]

\* -- the inputs of the market endpoints

PatternLen == 3
Price1 == 1234567          \* 123.4567
Price2 == 1250000          \* 125.00
PriceBig == 12345678       \* 1,234.5678

Raises == [kind |-> "raises", closes |-> <<>>]
Rows(closes) == [kind |-> "rows", closes |-> closes]

Quotes == {
    Raises,
    Rows(<<>>),
    Rows(<<None>>),
    Rows(<<Some(PriceBig)>>),
    Rows(<<None, Some(Price1)>>),
    Rows(<<Some(0)>>),
    Rows(<<Some(0), Some(Price1)>>),
    Rows(<<Some(Price1), Some(Price2)>>),
    Rows(<<Some(Price2), Some(Price1)>>) }

InfoAnswers == {
    [raises |-> TRUE, longName |-> "", shortName |-> ""],
    [raises |-> FALSE, longName |-> "Apple Inc.", shortName |-> "Apple"],
    [raises |-> FALSE, longName |-> "", shortName |-> "Apple"],
    [raises |-> FALSE, longName |-> "", shortName |-> ""] }

\* the quotes of the curated assets: a pattern of PatternLen quotes, repeated
QuotesOf(pattern) ==
    [i \in 1..Len(TOP_ASSETS) |-> pattern[((i - 1) % PatternLen) + 1]]

PathTickers == {<<"a", "a", "p", "l">>, <<"B", "T", "C", "-", "U", "S", "D">>}

InitMarket ==
    /\ request = Idle
    /\ response = NoResponse
    /\ users = <<>>
    /\ registered = {}
    /\ profiles = <<>>
    /\ sessions = <<>>
    /\ inflight = <<>>

GetMarketTop ==
    /\ request = Idle
    /\ \E batch \in {"raises", "frame"}, pattern \in [1..PatternLen -> Quotes],
          info \in InfoAnswers :
        /\ request' = [endpoint |-> "top", batch |-> batch,
                       quotes |-> QuotesOf(pattern), info |-> info]
        /\ response' = market_top_assets(batch, QuotesOf(pattern), info)
    /\ UNCHANGED <<users, registered, profiles, sessions, inflight>>

GetMarketTicker ==
    /\ request = Idle
    /\ \E ticker \in PathTickers, quote \in Quotes, info \in InfoAnswers :
        /\ request' = [endpoint |-> "market", ticker |-> ticker,
                       quote |-> quote, info |-> info]
        /\ response' = market_single_asset(ticker, quote, info)
    /\ UNCHANGED <<users, registered, profiles, sessions, inflight>>

NextMarket == GetMarketTop \/ GetMarketTicker \/ Reply

SpecMarket == InitMarket /\ [][NextMarket]_vars

\* -- claims on the market endpoints

TopAnswered == request.endpoint = "top"
TickerAnswered == request.endpoint = "market"

\* the place of a ticker in the curated list, 0 when it is not there
CuratedTickers == [i \in 1..Len(TOP_ASSETS) |-> Join(TOP_ASSETS[i].ticker)]
CuratedIndex(ticker) ==
    IF \E i \in 1..Len(TOP_ASSETS) : CuratedTickers[i] = ticker
    THEN CHOOSE i \in 1..Len(TOP_ASSETS) : CuratedTickers[i] = ticker
    ELSE 0

\* the provider has a close for the ticker and the access does not fail
HasData(quote) ==
    quote.kind = "rows" /\ \E i \in 1..Len(quote.closes) : quote.closes[i] /= None

\* an entry built by the single-ticker fetch
FromFallback(entry) == "source" \in DOMAIN entry

\* C8: get_top_assets never raises and never returns an error entry: its
\* result lists curated assets in the curated order, each ticker at most once,
\* omitting every asset whose data is missing or whose fetch failed (and no
\* other); entries of the single-ticker fallback appear only when the batched
\* call itself failed, and then every entry is one of the fallback.
C8_TopAssetsListing ==
    TopAnswered =>
        LET assets == response.body.assets
            n == Len(assets)
            places == [k \in 1..n |-> CuratedIndex(assets[k].ticker)]
        IN  /\ response.status = 200
            /\ \A k \in 1..n : "error" \notin DOMAIN assets[k]
            /\ \A k \in 1..n :
                  /\ places[k] > 0
                  /\ assets[k].name /= ""
                  /\ assets[k].category = TOP_ASSETS[places[k]].category
            /\ \A j, k \in 1..n : j < k => places[j] < places[k]
            /\ {places[k] : k \in 1..n}
                  = {i \in 1..Len(TOP_ASSETS) : HasData(request.quotes[i])}
            /\ (\E k \in 1..n : FromFallback(assets[k])) => request.batch = "raises"
            /\ request.batch = "raises" => \A k \in 1..n : FromFallback(assets[k])

\* the batched call failed and the fallback kept some assets and omitted others,
\* one of them for a fetch that failed
C8_Witness ==
    /\ TopAnswered
    /\ request.batch = "raises"
    /\ Len(response.body.assets) = 3
    /\ request.quotes[1].kind = "raises"
    /\ request.quotes[2] = Rows(<<None>>)
    /\ response.body.assets[1].ticker = "GOOGL"
    /\ FromFallback(response.body.assets[1])

\* the closes the provider has, NaN apart
Observations(quote) ==
    IF quote.kind = "rows" THEN dropna(quote.closes) ELSE <<>>

OneObservation(quote) == Len(Observations(quote)) = 1

PreviousIsZero(quote) ==
    LET obs == Observations(quote) IN
    \/ Len(obs) >= 2 /\ obs[Len(obs) - 1] = Some(0)
    \/ Len(obs) = 1 /\ obs[1] = Some(0)

\* the entry of curated asset i in the listing, <<>> when it has none
ListedEntry(i) ==
    SelectSeq(response.body.assets, LAMBDA e : e.ticker = CuratedTickers[i])

\* an entry that reports no change
ZeroChange(entry) ==
    IF FromFallback(entry)
    THEN entry.change = "+0.00" /\ entry.change_percent = "+0.00%"
    ELSE entry.change = 0 /\ entry.change_pct = 0

ZeroPercent(entry) ==
    IF FromFallback(entry) THEN entry.change_percent = "+0.00%"
    ELSE entry.change_pct = 0

\* the entry's price is the lone observation, to 2 places
PriceIs(entry, units) ==
    IF FromFallback(entry) THEN entry.price = format_comma_2f(units)
    ELSE entry.price = round2(units)

\* C9: for a ticker whose history has exactly one closing observation, the
\* single-ticker fetch and the batched fetch report that observation as the
\* price with change 0 and percentage change 0; and whenever the previous
\* price is 0 the fetch answers with a percentage change of 0.
C9_LoneObservationNoChange ==
    /\ TickerAnswered =>
          /\ OneObservation(request.quote) =>
                /\ response.status = 200
                /\ PriceIs(response.body, Observations(request.quote)[1][1])
                /\ ZeroChange(response.body)
          /\ PreviousIsZero(request.quote) =>
                /\ response.status = 200
                /\ ZeroPercent(response.body)
    /\ TopAnswered =>
          \A i \in 1..Len(TOP_ASSETS) :
              /\ OneObservation(request.quotes[i]) =>
                    /\ Len(ListedEntry(i)) = 1
                    /\ PriceIs(ListedEntry(i)[1], Observations(request.quotes[i])[1][1])
                    /\ ZeroChange(ListedEntry(i)[1])
              /\ PreviousIsZero(request.quotes[i]) =>
                    /\ Len(ListedEntry(i)) = 1
                    /\ ZeroPercent(ListedEntry(i)[1])

\* a single-ticker fetch of a history of one NaN row and one close
C9_Witness ==
    /\ TickerAnswered
    /\ request.quote = Rows(<<None, Some(Price1)>>)
    /\ response.status = 200
    /\ response.body.price = "123.46"
    /\ response.body.change = "+0.00"
    /\ response.body.change_percent = "+0.00%"

\* ------------------------------------------------------------------ chat

\* KEYWORD_TO_TICKER.get(key, default)
RECURSIVE keyword_get(_, _, _)
keyword_get(i, key, default) ==
    IF i > Len(KEYWORD_TO_TICKER) THEN default
    ELSE IF KEYWORD_TO_TICKER[i][1] = key THEN KEYWORD_TO_TICKER[i][2]
    ELSE keyword_get(i + 1, key, default)

\* get_market_data(query)
get_market_data(query, quote, info) ==
    IF query = <<>> \/ query = Unknown
    THEN [error |-> "No se identificó un activo válido en tu mensaje"]
    ELSE _get_yfinance_data(keyword_get(1, lower(query), upper(query)), quote, info)

\* market_context of the prompt; market_data is None or Some(snapshot)
market_context(market_data) ==
    IF market_data /= None /\ "error" \notin DOMAIN market_data[1]
    THEN "Datos de mercado en tiempo real:\n"
         \o "  - Activo: " \o market_data[1].name \o "\n"
         \o "  - Precio actual: $" \o market_data[1].price \o "\n"
         \o "  - Cambio hoy: " \o market_data[1].change
         \o " (" \o market_data[1].change_percent \o ")\n"
    ELSE "No hay datos de mercado específicos para este mensaje."

\* profile_guidance of the prompt
profile_guidance(user_profile) ==
    CASE user_profile = "Conservador" ->
            "El usuario prefiere seguridad. Prioriza productos de bajo riesgo (bonos, ETFs diversificados, depósitos)."
      [] user_profile = "Moderado" ->
            "El usuario busca equilibrio riesgo/retorno. Acciones blue-chip, ETFs mixtos son adecuados."
      [] user_profile = "Agresivo" ->
            "El usuario tolera alta volatilidad a cambio de mayores retornos. Acciones individuales, cripto, sectores de crecimiento."
      [] OTHER -> "Perfil Moderado."

\* the parts of the prompt that vary
prompt(user_message, user_profile, market_data) ==
    [profile |-> user_profile,
     guidance |-> profile_guidance(user_profile),
     message |-> Join(user_message),
     market_context |-> market_context(market_data)]

\* get_unified_analysis(user_message, user_profile, market_data), the LLM
\* answering `llm`: the call raises, or returns a response whose text is a
\* string or None. The value returned: None, or Some(text).
get_unified_analysis(user_message, user_profile, market_data, llm) ==
    IF llm.kind = "raises"
    THEN Some("Lo siento, tuve un problema procesando tu consulta. Por favor intenta de nuevo. (Error: "
              \o llm.error \o ")")
    ELSE IF llm.kind = "none" THEN None
    ELSE Some(llm.text)

\* POST /api/chat; `calls` lists the calls the handler made, in order
chat_endpoint(message, profile, quote, info, llm) ==
    LET ticker == extract_ticker_from_message(message)
        fetched == IF ticker /= Unknown
                   THEN Some(get_market_data(ticker, quote, info))
                   ELSE None
        market_data == IF fetched /= None /\ "error" \in DOMAIN fetched[1]
                       THEN None
                       ELSE fetched
        ai_reply == get_unified_analysis(message, profile, market_data, llm)
    IN  [status |-> 200,
         body |-> [reply |-> ai_reply,
                   market_data |-> market_data,
                   detected_ticker |-> Join(ticker)],
         calls |-> (IF ticker /= Unknown
                    THEN << [fn |-> "get_market_data", query |-> Join(ticker)] >>
                    ELSE <<>>)
                   \o << [fn |-> "get_unified_analysis",
                          prompt |-> prompt(message, profile, market_data)] >>]

\* -- the inputs of the chat endpoint

QueA == join_words(<<W_que, W_a>>)

ChatMessages ==
    {<<>>, QueA, QuieroComprarBitcoin, AAPLABuenPrecio, HolaQueTal}
    \cup Vocabulary

Profiles == {"Moderado", "Agresivo", "Arriesgado"}

ChatLlmAnswers ==
    {[kind |-> "raises", error |-> "503 UNAVAILABLE"],
     [kind |-> "none"],
     [kind |-> "text", text |-> "**Bitcoin** es volátil."]}

InitChat ==
    /\ request = Idle
    /\ response = NoResponse
    /\ users = <<>>
    /\ registered = {}
    /\ profiles = <<>>
    /\ sessions = <<>>
    /\ inflight = <<>>

PostChat ==
    /\ request = Idle
    /\ \E message \in ChatMessages, profile \in Profiles, quote \in Quotes,
          info \in InfoAnswers, llm \in ChatLlmAnswers :
        /\ request' = [endpoint |-> "chat", message |-> message, profile |-> profile,
                       quote |-> quote, info |-> info, llm |-> llm]
        /\ response' = chat_endpoint(message, profile, quote, info, llm)
    /\ UNCHANGED <<users, registered, profiles, sessions, inflight>>

NextChat == PostChat \/ Reply

SpecChat == InitChat /\ [][NextChat]_vars

\* -- claims on the chat endpoint

ChatAnswered == request.endpoint = "chat"

CallsOf(fn) == SelectSeq(response.calls, LAMBDA c : c.fn = fn)

\* the market data of the answer follow the resolved ticker and the fetch
ChatMarketData ==
    LET market_data == response.body.market_data IN
    IF response.body.detected_ticker = "UNKNOWN"
    THEN /\ CallsOf("get_market_data") = <<>>
         /\ market_data = None
    ELSE /\ Len(CallsOf("get_market_data")) = 1
         /\ ~HasData(request.quote) => market_data = None
         /\ HasData(request.quote) =>
               /\ market_data /= None
               /\ "error" \notin DOMAIN market_data[1]

\* the advisory responder was invoked once, with the market data of the answer
ChatAdvisedOnce ==
    /\ Len(CallsOf("get_unified_analysis")) = 1
    /\ response.calls[Len(response.calls)].fn = "get_unified_analysis"
    /\ response.calls[Len(response.calls)].prompt.market_context
          = market_context(response.body.market_data)

\* the reply when the LLM call throws
ChatApology ==
    request.llm.kind = "raises" =>
        response.body.reply =
            Some("Lo siento, tuve un problema procesando tu consulta. Por favor intenta de nuevo. (Error: 503 UNAVAILABLE)")

\* C10: for every message and every outcome of the market-data fetch and of
\* the LLM call, POST /api/chat completes with a normal response: no fetch and
\* null market data when the resolved ticker is "UNKNOWN", null market data
\* when the fetch returns an error, a snapshot without error field otherwise;
\* the advisory responder is invoked exactly once and returns text, also when
\* the LLM call throws.
C10_ChatAlwaysReplies ==
    ChatAnswered =>
        /\ response.status = 200
        /\ ChatMarketData
        /\ ChatAdvisedOnce
        /\ ChatApology
        /\ response.body.reply /= None

\* the same without the clause that the responder returns text
C10_ChatCompletes ==
    ChatAnswered =>
        /\ response.status = 200
        /\ ChatMarketData
        /\ ChatAdvisedOnce
        /\ ChatApology
        /\ request.llm.kind /= "none" => response.body.reply /= None
        /\ request.llm.kind = "none" => response.body.reply = None

\* --------------------------------------------------------------- profiles

\* db.query(User).filter(User.id == user_id).first()
first_user_by_id(rows, user_id) ==
    LET hits == {i \in 1..Len(rows) : rows[i].id = user_id}
    IN  IF hits = {} THEN None
        ELSE Some(rows[CHOOSE i \in hits : \A j \in hits : i <= j])

\* ProfileResponse: id, user_id, risk_profile, created_at
ProfileResponse(status, profile) ==
    [status |-> status,
     body |-> [id |-> profile.id, user_id |-> profile.user_id,
               risk_profile |-> profile.risk_profile,
               created_at |-> profile.created_at]]

\* POST /api/profiles, datetime.utcnow() reading `now` when the row is
\* inserted: <<response, rows of the profiles table afterwards>>
create_profile(user_rows, profile_rows, profile_data, now) ==
    IF first_user_by_id(user_rows, profile_data.user_id) = None
    THEN <<[status |-> 404, detail |-> "Usuario no encontrado"], profile_rows>>
    ELSE LET db_profile == [id |-> Len(profile_rows) + 1,
                            user_id |-> profile_data.user_id,
                            risk_profile |-> profile_data.risk_profile,
                            test_answers |-> profile_data.test_answers,
                            created_at |-> now]
         IN  <<ProfileResponse(201, db_profile), Append(profile_rows, db_profile)>>

\* .filter(Profile.user_id == user_id).order_by(Profile.created_at.desc()):
\* the rows that can come first, the order of rows with equal created_at
\* being left open by ORDER BY
first_by_created_at_desc(profile_rows, user_id) ==
    {i \in 1..Len(profile_rows) :
        /\ profile_rows[i].user_id = user_id
        /\ \A j \in 1..Len(profile_rows) :
              profile_rows[j].user_id = user_id
                  => profile_rows[j].created_at <= profile_rows[i].created_at}

\* GET /api/profiles/{user_id}: the responses the query can produce
get_latest_profile(profile_rows, user_id) ==
    LET firsts == first_by_created_at_desc(profile_rows, user_id) IN
    IF firsts = {}
    THEN {[status |-> 404, detail |-> "Perfil no encontrado"]}
    ELSE {ProfileResponse(200, profile_rows[i]) : i \in firsts}

\* -- the inputs of the profile endpoints

MaxProfiles == 3

\* the users table after two POST /api/users
TwoUsers ==
    create_user(create_user(<<>>, [name |-> "Ana", email |-> None])[2],
                [name |-> "Luis", email |-> None])[2]

UserIds == 1..(Len(TwoUsers) + 1)
Labels == {"Agresivo", "Arriesgado"}

\* datetime.utcnow() at an insert: the reading of the row before, or a later one
UtcNow(profile_rows) ==
    LET before == IF profile_rows = <<>> THEN 0
                  ELSE profile_rows[Len(profile_rows)].created_at
    IN  {before, before + 1}

InitProfiles ==
    /\ request = Idle
    /\ response = NoResponse
    /\ users = TwoUsers
    /\ registered = {}
    /\ profiles = <<>>
    /\ sessions = <<>>
    /\ inflight = <<>>

PostProfiles ==
    /\ request = Idle
    /\ Len(profiles) < MaxProfiles
    /\ \E user_id \in UserIds, risk_profile \in Labels, now \in UtcNow(profiles) :
        LET profile_data == [user_id |-> user_id, risk_profile |-> risk_profile,
                             test_answers |-> None]
            done == create_profile(users, profiles, profile_data, now)
        IN  /\ request' = [endpoint |-> "profiles", profile_data |-> profile_data]
            /\ response' = done[1]
            /\ profiles' = done[2]
    /\ UNCHANGED <<users, registered, sessions, inflight>>

GetProfiles ==
    /\ request = Idle
    /\ \E user_id \in UserIds :
        /\ request' = [endpoint |-> "latest_profile", user_id |-> user_id]
        /\ response' \in get_latest_profile(profiles, user_id)
    /\ UNCHANGED <<users, registered, profiles, sessions, inflight>>

NextProfiles == PostProfiles \/ GetProfiles \/ Reply

SpecProfiles == InitProfiles /\ [][NextProfiles]_vars

\* -- claims on the profile endpoints

\* the places in the table of the profiles of a user, in creation order
ProfilesOf(user_id) == {i \in 1..Len(profiles) : profiles[i].user_id = user_id}

\* the profile created last for the user
CreatedLast(user_id) ==
    profiles[CHOOSE i \in ProfilesOf(user_id) : \A j \in ProfilesOf(user_id) : j <= i]

\* C11: after any sequence of profile creations, GET /api/profiles/{user_id}
\* answers 404 exactly when the user has no profile and otherwise returns the
\* profile created last for that user, which has the greatest creation
\* timestamp among that user's profiles.
C11_LatestIsCreatedLast ==
    request.endpoint = "latest_profile" =>
        IF ProfilesOf(request.user_id) = {}
        THEN response.status = 404
        ELSE /\ response.status = 200
             /\ response.body.user_id = request.user_id
             /\ response.body.id = CreatedLast(request.user_id).id
             /\ \A i \in ProfilesOf(request.user_id) :
                   profiles[i].created_at <= response.body.created_at

\* the part of it that does not depend on which of the profiles with the
\* greatest timestamp comes first
C11_LatestHasGreatestTimestamp ==
    request.endpoint = "latest_profile" =>
        IF ProfilesOf(request.user_id) = {}
        THEN response.status = 404
        ELSE /\ response.status = 200
             /\ response.body.user_id = request.user_id
             /\ \E i \in ProfilesOf(request.user_id) : profiles[i].id = response.body.id
             /\ \A i \in ProfilesOf(request.user_id) :
                   profiles[i].created_at <= response.body.created_at

RiskCategories == {"Conservador", "Moderado", "Agresivo"}

\* C15: after any sequence of POST /api/profiles requests every stored
\* profile carries one of the three fixed categories, and a creation request
\* with any other label is not answered 201.
C15_StoredLabelIsCategory ==
    /\ \A i \in 1..Len(profiles) : profiles[i].risk_profile \in RiskCategories
    /\ (request.endpoint = "profiles"
            /\ request.profile_data.risk_profile \notin RiskCategories)
          => response.status /= 201

\* ------------------------------------- claims on the calculator's figures

\* the history's average monthly return is 0
ZeroReturn ==
    /\ Calculated
    /\ response.status = 200
    /\ mean(pct_change(resample_last(request.provider.rows))) = 0

\* every entry reports no gain
NoGainEntries ==
    \A i \in 1..Len(response.body.monthly_breakdown) :
        /\ response.body.monthly_breakdown[i].gain = 0
        /\ response.body.monthly_breakdown[i].gain_pct = 0

\* C12 as stated: if the historical average monthly return is 0, every
\* monthly_breakdown entry has value equal to amount and gain and gain_pct
\* equal to 0.
C12_ZeroReturnKeepsAmount ==
    ZeroReturn =>
        /\ NoGainEntries
        /\ \A i \in 1..Len(response.body.monthly_breakdown) :
              response.body.monthly_breakdown[i].value = request.amount

\* C12: if the historical average monthly return is 0, every
\* monthly_breakdown entry has value equal to amount rounded to 2 places
\* (the initial_amount of the result) and gain and gain_pct equal to 0.
C12_ZeroReturnKeepsRoundedAmount ==
    ZeroReturn =>
        /\ NoGainEntries
        /\ Len(response.body.monthly_breakdown) = request.months
        /\ \A i \in 1..Len(response.body.monthly_breakdown) :
              /\ response.body.monthly_breakdown[i].value = round2(request.amount)
              /\ response.body.monthly_breakdown[i].value = response.body.initial_amount

\* a zero return on 25.4321 over 48 months
C12_Witness ==
    /\ ZeroReturn
    /\ request.amount = 254321
    /\ request.months = 48
    /\ response.body.monthly_breakdown[48].value = 254300
    /\ response.body.monthly_breakdown[48].gain = 0

\* C16: the totals of a projection are the final month's figures: total_gain
\* equals the gain of the last monthly_breakdown entry and total_gain_pct
\* equals the gain_pct of that entry.
C16_TotalsAreLastEntry ==
    (Calculated /\ response.status = 200) =>
        LET b == response.body.monthly_breakdown IN
        /\ response.body.total_gain = b[Len(b)].gain
        /\ response.body.total_gain_pct = b[Len(b)].gain_pct

\* what the totals are: the difference of the last entry's rounded value and
\* the amount, and that difference as a percentage of the amount
C16_TotalsFromRoundedValue ==
    (Calculated /\ response.status = 200) =>
        LET b == response.body.monthly_breakdown IN
        /\ response.body.total_gain = round2(b[Len(b)].value - request.amount)
        /\ response.body.total_gain_pct = pct2(b[Len(b)].value - request.amount, request.amount)

\* ------------------------------------------------- risk test questions

\* the five questions; the keycap digit that opens each is written as the digit
RISK_QUESTIONS == <<
    "1 **¿Cuál es tu objetivo principal al invertir?**\n   a) Conservar mi dinero y protegerme de la inflación\n   b) Crecer moderadamente con riesgo controlado\n   c) Maximizar el crecimiento aunque implique alta volatilidad",
    "2 **Si tu inversión cayera un 20% en un mes, ¿qué harías?**\n   a) Vendería todo para evitar más pérdidas\n   b) Esperaría a que se recupere sin hacer nada\n   c) Compraría más, es una oportunidad de precio bajo",
    "3 **¿Cuánto tiempo planeas mantener tu inversión?**\n   a) Menos de 1 año\n   b) Entre 1 y 5 años\n   c) Más de 5 años",
    "4 **¿Con qué porcentaje de tus ahorros estás dispuesto a asumir riesgo?**\n   a) Menos del 20%\n   b) Entre el 20% y el 50%\n   c) Más del 50%, busco retornos altos",
    "5 **¿Cuál de estas frases describe mejor tu situación financiera?**\n   a) Tengo ingresos fijos y no puedo permitirme grandes pérdidas\n   b) Tengo estabilidad pero quiero hacer crecer mi patrimonio\n   c) Tengo ingresos variables y alta tolerancia a la incertidumbre" >>

\* the guard reading question_number < len(RISK_QUESTIONS) only: a negative
\* index counts from the end of the list (and on, around it)
get_risk_question_from_end(question_number) ==
    IF question_number < Len(RISK_QUESTIONS)
    THEN RISK_QUESTIONS[(question_number % Len(RISK_QUESTIONS)) + 1]
         \o "\n\n*Pregunta " \o ToString(question_number + 1)
         \o " de " \o ToString(Len(RISK_QUESTIONS)) \o "*"
    ELSE ""

\* get_risk_question(question_number), 0-based (the list here is 1-based)
get_risk_question(question_number) ==
    IF 0 <= question_number /\ question_number < Len(RISK_QUESTIONS)
    THEN RISK_QUESTIONS[question_number + 1]
         \o "\n\n*Pregunta " \o ToString(question_number + 1)
         \o " de " \o ToString(Len(RISK_QUESTIONS)) \o "*"
    ELSE ""

FirstQuestion == 1
LastQuestion == 5

\* GET /api/risk-test/question/{number}
get_question(number) ==
    IF ~(FirstQuestion <= number /\ number <= LastQuestion)
    THEN [status |-> 400, detail |-> "Question number must be between 1 and 5"]
    ELSE [status |-> 200,
          body |-> [question_number |-> number,
                    total_questions |-> LastQuestion,
                    question |-> get_risk_question(number - 1)]]

\* -- the inputs of the question endpoint

MaxNumber == 60
Numbers == (0 - MaxNumber)..MaxNumber

InitQuestions ==
    /\ request = Idle
    /\ response = NoResponse
    /\ users = <<>>
    /\ registered = {}
    /\ profiles = <<>>
    /\ sessions = <<>>
    /\ inflight = <<>>

GetQuestion ==
    /\ request = Idle
    /\ \E number \in Numbers :
        /\ request' = [endpoint |-> "question", number |-> number]
        /\ response' = get_question(number)
    /\ UNCHANGED <<users, registered, profiles, sessions, inflight>>

\* a call of get_risk_question
CallGetRiskQuestion ==
    /\ request = Idle
    /\ \E question_number \in Numbers :
        /\ request' = [endpoint |-> "get_risk_question",
                       question_number |-> question_number]
        /\ response' = [status |-> 200, value |-> get_risk_question(question_number)]
    /\ UNCHANGED <<users, registered, profiles, sessions, inflight>>

NextQuestions == GetQuestion \/ CallGetRiskQuestion \/ Reply

SpecQuestions == InitQuestions /\ [][NextQuestions]_vars

\* -- claims on the question endpoint

\* the footer that follows the question's text
QuestionFooter(n) == "\n\n*Pregunta " \o ToString(n) \o " de 5*"

\* C13: GET /api/risk-test/question/{n} answers 400 exactly when n is outside
\* 1..5 and otherwise returns question_number = n, total_questions = 5 and
\* the non-empty text of the n-th of the five fixed questions (followed by
\* its footer); get_risk_question(i) returns the empty string for every i
\* outside 0..4, negative indices included.
C13_QuestionByNumber ==
    /\ Len(RISK_QUESTIONS) = 5
    /\ \A n \in 1..5 : RISK_QUESTIONS[n] /= ""
    /\ request.endpoint = "question" =>
          /\ response.status = 400 <=> request.number \notin 1..5
          /\ request.number \in 1..5 =>
                /\ response.status = 200
                /\ response.body.question_number = request.number
                /\ response.body.total_questions = 5
                /\ response.body.question
                      = RISK_QUESTIONS[request.number] \o QuestionFooter(request.number)
    /\ request.endpoint = "get_risk_question" =>
          /\ request.question_number \notin 0..4 => response.value = ""
          /\ request.question_number \in 0..4 =>
                response.value = RISK_QUESTIONS[request.question_number + 1]
                                    \o QuestionFooter(request.question_number + 1)

\* question 5 fetched by number, and an index below 0 answered with nothing
C13_Witness ==
    /\ request.endpoint = "question"
    /\ request.number = 5
    /\ response.status = 200
    /\ response.body.question = get_risk_question(4)
    /\ response.body.question /= ""

C13_WitnessNegative ==
    /\ request.endpoint = "get_risk_question"
    /\ request.question_number = 0 - 1
    /\ response.value = ""

\* ------------------------------------ concurrent requests and get_db

\* get_db up to its yield: db = SessionLocal(), owned by request `owner`
open_session(session_rows, owner) ==
    Append(session_rows, [owner |-> owner, open |-> TRUE])

\* a generator without finally: db.close() only after a handler that returned
get_db_exit_on_return(session_rows, s, raised) ==
    IF raised THEN session_rows
    ELSE [session_rows EXCEPT ![s].open = FALSE]

\* get_db after its yield, the handler having returned or raised:
\* finally: db.close()
get_db_exit(session_rows, s, raised) ==
    [session_rows EXCEPT ![s].open = FALSE]

\* the handler of register or create_user up to and including its lookup:
\* what the request does next, and the status it raises
lookup_step(rows, req) ==
    IF req.endpoint = "users" /\ (req.email = None \/ req.email = Some(""))
    THEN [pc |-> "insert", status |-> 0]
    ELSE IF first_user_by_email(rows, req.email[1]) /= None
    THEN [pc |-> "raised", status |-> 409]
    ELSE [pc |-> "insert", status |-> 0]

\* the rest of the handler: db.add, db.commit, db.refresh and the response;
\* a commit that fails raises IntegrityError, which nothing catches
commit_step(rows, req) ==
    LET saved == commit_user(rows,
                     [name |-> "Ana", email |-> req.email,
                      password_hash |-> IF req.endpoint = "register"
                                        THEN Some(hash_password("secreto1", "$2b$12$aaaa"))
                                        ELSE None])
    IN  IF saved.ok
        THEN [pc |-> "returned", status |-> 201, rows |-> saved.rows]
        ELSE [pc |-> "raised", status |-> IntegrityError.status, rows |-> rows]

\* the handlers that only read: login and get_user
read_step(rows, req) ==
    IF req.endpoint = "login"
    THEN LET answer == login(rows, [username |-> req.email[1], password |-> "secreto1"], 0)
         IN  [pc |-> IF answer.status = 200 THEN "returned" ELSE "raised",
              status |-> answer.status]
    ELSE IF first_user_by_id(rows, req.user_id) = None
         THEN [pc |-> "raised", status |-> 404]
         ELSE [pc |-> "returned", status |-> 200]

\* -- the requests served

MaxRequests == 2

Arrivals ==
    {[endpoint |-> "register", email |-> Some("ana@x.io"), user_id |-> 0],
     [endpoint |-> "users", email |-> Some("ana@x.io"), user_id |-> 0],
     [endpoint |-> "users", email |-> None, user_id |-> 0],
     [endpoint |-> "login", email |-> Some("ana@x.io"), user_id |-> 0],
     [endpoint |-> "get_user", email |-> None, user_id |-> 1]}

InitServer ==
    /\ request = Idle
    /\ response = NoResponse
    /\ users = <<>>
    /\ registered = {}
    /\ profiles = <<>>
    /\ sessions = <<>>
    /\ inflight = <<>>

\* a request arrives and FastAPI resolves Depends(get_db)
Arrive ==
    /\ Len(inflight) < MaxRequests
    /\ \E arrival \in Arrivals :
        /\ inflight' = Append(inflight,
              [pc |-> IF arrival.endpoint \in {"register", "users"}
                      THEN "lookup" ELSE "read",
               status |-> 0, session |-> Len(sessions) + 1] @@ arrival)
        /\ sessions' = open_session(sessions, Len(inflight) + 1)
    /\ UNCHANGED <<request, response, users, registered, profiles>>

Lookup(r) ==
    /\ inflight[r].pc = "lookup"
    /\ LET step == lookup_step(users, inflight[r])
       IN  inflight' = [inflight EXCEPT ![r].pc = step.pc, ![r].status = step.status]
    /\ UNCHANGED <<request, response, users, registered, profiles, sessions>>

Commit(r) ==
    /\ inflight[r].pc = "insert"
    /\ LET step == commit_step(users, inflight[r])
       IN  /\ inflight' = [inflight EXCEPT ![r].pc = step.pc, ![r].status = step.status]
           /\ users' = step.rows
    /\ UNCHANGED <<request, response, registered, profiles, sessions>>

Read(r) ==
    /\ inflight[r].pc = "read"
    /\ LET step == read_step(users, inflight[r])
       IN  inflight' = [inflight EXCEPT ![r].pc = step.pc, ![r].status = step.status]
    /\ UNCHANGED <<request, response, users, registered, profiles, sessions>>

\* the handler is over: get_db resumes and the request completes
Finish(r) ==
    /\ inflight[r].pc \in {"returned", "raised"}
    /\ sessions' = get_db_exit(sessions, inflight[r].session, inflight[r].pc = "raised")
    /\ inflight' = [inflight EXCEPT ![r].pc = "completed"]
    /\ UNCHANGED <<request, response, users, registered, profiles>>

Serve == \E r \in 1..Len(inflight) : Lookup(r) \/ Commit(r) \/ Read(r) \/ Finish(r)

NextServer == Arrive \/ Serve

SpecServer == InitServer /\ [][NextServer]_vars

\* every request that has arrived keeps being served
SpecServerFair == SpecServer /\ WF_vars(Serve)

\* -- claims on concurrent requests

SessionsOf(r) == {s \in 1..Len(sessions) : sessions[s].owner = r}

\* each request has opened exactly one session, and the session of a request
\* that has completed is closed
OneSessionClosedAtEnd ==
    \A r \in 1..Len(inflight) :
        /\ Cardinality(SessionsOf(r)) = 1
        /\ SessionsOf(r) = {inflight[r].session}
        /\ inflight[r].pc = "completed" => ~sessions[inflight[r].session].open

SessionOpen(s) == s <= Len(sessions) /\ sessions[s].open
SessionClosed(s) == s <= Len(sessions) /\ ~sessions[s].open

\* C14: every database session opened by get_db for a request is closed when
\* that request ends, whether the handler returns or raises (401, 404, 409,
\* or an exception nothing catches); each request opens exactly one session
\* and none stays open after its request has completed.
C14_SessionClosedAtRequestEnd ==
    /\ []OneSessionClosedAtEnd
    /\ \A s \in 1..MaxRequests : SessionOpen(s) ~> SessionClosed(s)

\* two requests completed, one of them raising an exception nothing catches,
\* and both sessions closed
C14_Witness ==
    /\ Len(inflight) = 2
    /\ inflight[1].pc = "completed"
    /\ inflight[2].pc = "completed"
    /\ inflight[2].status = 500
    /\ ~sessions[1].open
    /\ ~sessions[2].open

\* the users stored with an email
StoredWith(email) == {i \in 1..Len(users) : users[i].email = email}

\* C17: under any interleaving of concurrent register and create_user
\* requests that carry the same email, at most one user with that email is
\* ever stored, and every such request that does not create the user
\* completes with 409.
C17_DuplicateRaceAnswered409 ==
    /\ Cardinality(StoredWith(Some("ana@x.io"))) <= 1
    /\ \A r \in 1..Len(inflight) :
          (/\ inflight[r].endpoint \in {"register", "users"}
           /\ inflight[r].email = Some("ana@x.io")
           /\ inflight[r].pc = "completed")
              => inflight[r].status \in {201, 409}

\* the part of it that the UNIQUE index on users.email gives
C17_AtMostOneUserPerEmail ==
    /\ Cardinality(StoredWith(Some("ana@x.io"))) <= 1
    /\ Cardinality({r \in 1..Len(inflight) :
                        /\ inflight[r].email = Some("ana@x.io")
                        /\ inflight[r].status = 201}) <= 1

\* ------------------------- claims on the two paths of get_top_assets

\* the field names of a batched entry
BatchFields ==
    {"ticker", "name", "category", "price", "change", "change_pct", "currency"}

\* what the batched call returns for the quotes of the request
Batched == get_top_assets("frame", request.quotes, request.info)

\* C18: the batched path and the per-asset fallback of get_top_assets are
\* interchangeable: for the same provider prices the fallback returns entries
\* with the same field names and the same kinds of values, each equal to the
\* entry the batched call produces for that asset.
C18_FallbackEqualsBatch ==
    (TopAnswered /\ request.batch = "raises") =>
        LET assets == response.body.assets IN
        /\ Len(assets) = Len(Batched)
        /\ \A k \in 1..Len(assets) :
              /\ DOMAIN assets[k] = BatchFields
              /\ DOMAIN assets[k] = DOMAIN Batched[k]
              /\ assets[k] = Batched[k]

\* what the two paths do share: the assets listed, in the same order, with
\* their tickers, categories and currency
C18_SameAssetsListed ==
    (TopAnswered /\ request.batch = "raises") =>
        LET assets == response.body.assets IN
        /\ Len(assets) = Len(Batched)
        /\ \A k \in 1..Len(assets) :
              /\ assets[k].ticker = Batched[k].ticker
              /\ assets[k].category = Batched[k].category
              /\ assets[k].currency = Batched[k].currency

=============================================================================
